---- MODULE Spec2Model ----
(***************************************************************************)
(* Model of glTFcomp/scripts/gltfcmp.py: the export operator               *)
(* EXPORT_SCENE_OT_compgltf.execute and the two extraction functions it    *)
(* calls, extract_data and get_texture_data.                               *)
(*                                                                         *)
(* Python values are modelled as follows.                                  *)
(*   - a dict is a record, a list is a sequence, None is the empty         *)
(*     sequence <<>> where the code tests a value for presence (an         *)
(*     optional value is <<>> or <<v>>);                                   *)
(*   - a path is the sequence of its components, "/" first for an          *)
(*     absolute path and "//" first for a path relative to the .blend      *)
(*     file; the empty string is <<>>;                                     *)
(*   - a float is the pair <<num, den>> of an exact fraction;              *)
(*   - a call that can raise returns [tag |-> "ok", val |-> v] or          *)
(*     [tag |-> "raise", val |-> <<>>].                                    *)
(***************************************************************************)
EXTENDS Integers, Sequences, FiniteSets

VARIABLES
    \* ---- the export operator (Spec) ----
    scene,          \* context.scene.objects, each with its select flag
    self,           \* the operator's properties, as stored (lines 119-157)
    requested,      \* the property values the caller asked for
    fs,             \* the file system: existing directories, read-only flag
    pc,             \* position in execute: "load", "setup", "loop", "done"
                    \* ("idle" when execute is not under way)
    m,              \* the loaded backend module: "none" or "glTFCompL"
    objects,        \* line 167
    export_folder,  \* line 168
    idx,            \* position of the for loop of line 171 (1-based)
    mkdirLog,       \* the calls made to os.makedirs, with their outcome
    calls,          \* the calls made to m.ReadBlenderData, in order
    reports,        \* the calls made to self.report, in order
    extractLog,     \* the calls made to extract_data, with their outcome
    textureLog,     \* the calls made to get_texture_data, with their outcome
    result,         \* "NONE", "FINISHED", "CANCELLED" or "RAISED"
    \* ---- get_texture_data alone (SpecTex) ----
    texObj,         \* the object handed to get_texture_data
    texOut          \* <<>> before the call, <<its outcome>> after

vars == <<scene, self, requested, fs, pc, m, objects, export_folder, idx,
          mkdirLog, calls, reports, extractLog, textureLog, result, texObj, texOut>>

execVars == <<scene, self, requested, fs, pc, m, objects, export_folder, idx,
              mkdirLog, calls, reports, extractLog, textureLog, result>>

texVars == <<texObj, texOut>>

(***************************************************************************)
(* Bounds of the model.                                                    *)
(***************************************************************************)
MaxObjs == 2        \* scene objects per export
MaxTokens == 4      \* material slots plus nodes of one object (SpecTex)
MaxPixels == 2      \* channel values of one embedded image (SpecTex)

(***************************************************************************)
(* Helpers for Python values.                                              *)
(***************************************************************************)
None == <<>>

Some(v) == <<v>>

Ok(v) == [tag |-> "ok", val |-> v]

Raise == [tag |-> "raise", val |-> <<>>]

SeqsUpTo(S, n) == UNION {[1..k -> S] : k \in 0..n}

RECURSIVE Flatten(_)
Flatten(ss) == IF ss = <<>> THEN <<>> ELSE Head(ss) \o Flatten(Tail(ss))

(***************************************************************************)
(* Paths.                                                                  *)
(***************************************************************************)
BlendDir == <<"/", "proj">>

\* bpy.path.abspath: a "//" prefix stands for the .blend file's directory
abspath(p) ==
    IF p # <<>> /\ Head(p) = "//" THEN BlendDir \o Tail(p) ELSE p

\* os.path.normpath: "." components dropped, "x/.." collapsed
RECURSIVE NormInto(_, _)
NormInto(done, rest) ==
    IF rest = <<>> THEN done
    ELSE LET c == Head(rest) IN
         IF c = "." THEN NormInto(done, Tail(rest))
         ELSE IF c = ".." /\ done # <<>> /\ done[Len(done)] \notin {"/", ".."}
              THEN NormInto(SubSeq(done, 1, Len(done) - 1), Tail(rest))
         ELSE IF c = ".." /\ done = <<"/">>
              THEN NormInto(done, Tail(rest))
         ELSE NormInto(Append(done, c), Tail(rest))

normpath(p) == NormInto(<<>>, p)

\* os.path.dirname: everything before the last component; "" for a bare name
dirname(p) == IF p = <<>> THEN <<>> ELSE SubSeq(p, 1, Len(p) - 1)

(***************************************************************************)
(* get_texture_data (lines 73-107).                                        *)
(***************************************************************************)
\* the results a float32 -> uint8 cast of an out-of-range value gives:
\* modulo 256 (x86) or saturated (ARM); C leaves it undefined
CastModes == {"wrap", "saturate"}

\* integer part of a/b, rounded towards zero (b > 0)
TruncDiv(a, b) == IF a >= 0 THEN a \div b ELSE -((-a) \div b)

\* (v * 255).astype(np.uint8) for one channel value v = <<num, den>>
astype_uint8(v, cast) ==
    LET t == TruncDiv(v[1] * 255, v[2]) IN
    IF t \in 0..255 THEN t
    ELSE IF cast = "wrap" THEN t % 256
    ELSE IF t < 0 THEN 0 ELSE 255

\* pixels.reshape((height, width, channels)) raises ValueError unless the
\* buffer holds exactly height * width * channels values
ReshapeFails(img) == Len(img.pixels) # img.height * img.width * img.channels

\* lines 82-104: the record of one image, <<>> when it has neither a file
\* path nor packed data; "raise" when the reshape of line 95 fails
TextureOf(img, cast) ==
    IF img.filepath # <<>>
    THEN Ok(<<[type |-> "file",
               path |-> normpath(abspath(img.filepath)),
               name |-> img.name]>>)
    ELSE IF img.packed
    THEN IF ReshapeFails(img) THEN Raise
         ELSE Ok(<<[type |-> "packed",
                    name |-> img.name,
                    width |-> img.width,
                    height |-> img.height,
                    channels |-> img.channels,
                    data |-> [i \in 1..Len(img.pixels) |->
                                 astype_uint8(img.pixels[i], cast)]]>>)
    ELSE Ok(<<>>)

\* line 81: the nodes the loop body acts on
IsImageNode(node) == node.type = "TEX_IMAGE" /\ node.image # None

\* NodesLoop, but an image already in textures is not appended again
RECURSIVE NodesLoop_dedup(_, _, _)
NodesLoop_dedup(nodes, textures, cast) ==
    IF nodes = <<>> THEN Ok(textures)
    ELSE LET node == Head(nodes) IN
         IF IsImageNode(node)
         THEN LET tex == TextureOf(node.image[1], cast) IN
              IF tex.tag = "raise" THEN Raise
              ELSE IF \E i \in 1..Len(textures), j \in 1..Len(tex.val) :
                         textures[i].name = tex.val[j].name
              THEN NodesLoop_dedup(Tail(nodes), textures, cast)
              ELSE NodesLoop_dedup(Tail(nodes), textures \o tex.val, cast)
         ELSE NodesLoop_dedup(Tail(nodes), textures, cast)

\* lines 80-106: the loop over one material's nodes, appending to textures
RECURSIVE NodesLoop(_, _, _)
NodesLoop(nodes, textures, cast) ==
    IF nodes = <<>> THEN Ok(textures)
    ELSE LET node == Head(nodes) IN
         IF IsImageNode(node)
         THEN LET tex == TextureOf(node.image[1], cast) IN
              IF tex.tag = "raise" THEN Raise
              ELSE NodesLoop(Tail(nodes), textures \o tex.val, cast)
         ELSE NodesLoop(Tail(nodes), textures, cast)

\* lines 78-106: the loop over the material slots
RECURSIVE MaterialsLoop(_, _, _)
MaterialsLoop(mats, textures, cast) ==
    IF mats = <<>> THEN Ok(textures)
    ELSE LET mat == Head(mats) IN
         IF mat # None /\ mat[1].use_nodes
         THEN LET r == NodesLoop(mat[1].nodes, textures, cast) IN
              IF r.tag = "raise" THEN Raise
              ELSE MaterialsLoop(Tail(mats), r.val, cast)
         ELSE MaterialsLoop(Tail(mats), textures, cast)

get_texture_data(obj, cast) ==
    IF obj.materials = <<>> THEN Ok(<<>>)
    ELSE MaterialsLoop(obj.materials, <<>>, cast)

(***************************************************************************)
(* Inputs of get_texture_data: materials, nodes and images.                *)
(***************************************************************************)
Image(name, filepath, packed, width, height, channels, pixels) ==
    [name |-> name, filepath |-> filepath, packed |-> packed, width |-> width,
     height |-> height, channels |-> channels, pixels |-> pixels]

ImgFile == Image("a.png", <<"//", "tex", ".", "a.png">>, FALSE, 1, 1, 1, <<>>)

ImgPacked == Image("b", <<>>, TRUE, 1, 1, 1, <<<<1, 1>>>>)

ImgBoth == Image("c.png", <<"/", "abs", "x", "..", "c.png">>, TRUE, 1, 1, 1,
                 <<<<0, 1>>>>)

ImgNoSource == Image("d", <<>>, FALSE, 0, 0, 0, <<>>)

\* a packed image whose pixel buffer is shorter than its size says
ImgTruncated == Image("e", <<>>, TRUE, 1, 1, 2, <<<<1, 1>>>>)

Node(type, image) == [type |-> type, image |-> image]

Material(name, use_nodes, nodes) ==
    <<[name |-> name, use_nodes |-> use_nodes, nodes |-> nodes]>>

\* The tokens an object's material list is spelled with: a slot (empty,
\* node-based, not node-based) followed by the nodes of its tree.
SlotTokens == {"none", "mat", "matoff"}

NodeTokens == {"bsdf", "tex_noimg", "tex_file", "tex_packed", "tex_both",
               "tex_nosrc"}

NodeOfToken(t) ==
    CASE t = "bsdf" -> Node("BSDF_PRINCIPLED", None)
      [] t = "tex_noimg" -> Node("TEX_IMAGE", None)
      [] t = "tex_file" -> Node("TEX_IMAGE", Some(ImgFile))
      [] t = "tex_packed" -> Node("TEX_IMAGE", Some(ImgPacked))
      [] t = "tex_both" -> Node("TEX_IMAGE", Some(ImgBoth))
      [] OTHER -> Node("TEX_IMAGE", Some(ImgNoSource))

\* a node token needs a material before it to belong to
WellFormed(ts) ==
    \A i \in 1..Len(ts) :
        ts[i] \in NodeTokens =>
            /\ i > 1
            /\ ts[i - 1] \in NodeTokens \cup {"mat", "matoff"}

RECURSIVE MaterialsOfTokens(_, _)
MaterialsOfTokens(ts, mats) ==
    IF ts = <<>> THEN mats
    ELSE LET t == Head(ts)
             n == Len(mats) IN
         IF t = "none" THEN MaterialsOfTokens(Tail(ts), Append(mats, None))
         ELSE IF t \in SlotTokens
         THEN MaterialsOfTokens(Tail(ts),
                  Append(mats, Material("m", t = "mat", <<>>)))
         ELSE MaterialsOfTokens(Tail(ts),
                  [mats EXCEPT ![n] =
                      <<[@[1] EXCEPT !.nodes = Append(@, NodeOfToken(t))]>>])

\* float channel values: below 0, 0, one half, just under 1, 1, above 1
PixelVals == {<<-1, 8>>, <<0, 1>>, <<1, 2>>, <<999, 1000>>, <<1, 1>>, <<9, 8>>}

\* embedded images of every shape and buffer length up to MaxPixels values
PixelImages ==
    {Image("p", <<>>, TRUE, w, h, c, px) :
        w \in 1..MaxPixels, h \in 1..MaxPixels, c \in 1..MaxPixels,
        px \in SeqsUpTo(PixelVals, MaxPixels)}

TexObjects ==
    {[materials |-> MaterialsOfTokens(ts, <<>>)] :
        ts \in {t \in SeqsUpTo(SlotTokens \cup NodeTokens, MaxTokens) :
                    WellFormed(t)}}
    \cup
    {[materials |-> <<Material("m", TRUE, <<Node("TEX_IMAGE", Some(img))>>)>>] :
        img \in {i \in PixelImages :
                    i.width * i.height * i.channels <= MaxPixels}}

(***************************************************************************)
(* SpecTex: get_texture_data applied to every such object.                 *)
(***************************************************************************)
ExecIdle ==
    /\ scene = <<>> /\ self = <<>> /\ requested = <<>> /\ fs = <<>>
    /\ pc = "idle" /\ m = "none" /\ objects = <<>> /\ export_folder = <<>>
    /\ idx = 0 /\ mkdirLog = <<>> /\ calls = <<>> /\ reports = <<>>
    /\ extractLog = <<>> /\ textureLog = <<>> /\ result = "NONE"

InitTex ==
    /\ texObj \in TexObjects
    /\ texOut = <<>>
    /\ ExecIdle

CallGetTextureData ==
    /\ pc = "idle"
    /\ texOut = <<>>
    /\ \E cast \in CastModes : texOut' = <<get_texture_data(texObj, cast)>>
    /\ UNCHANGED <<texObj, execVars>>

NextTex == CallGetTextureData

SpecTex == InitTex /\ [][NextTex]_vars

(***************************************************************************)
(* extract_data (lines 25-71).                                             *)
(***************************************************************************)
\* lines 50-58: one descriptor per material slot that holds a material
RECURSIVE MaterialDescriptors(_)
MaterialDescriptors(mats) ==
    IF mats = <<>> THEN <<>>
    ELSE IF Head(mats) # None
         THEN <<[name |-> Head(mats)[1].name]>> \o MaterialDescriptors(Tail(mats))
         ELSE MaterialDescriptors(Tail(mats))

\* The evaluated mesh is obj.mesh: nverts vertices, its triangles after
\* triangulation (three vertex indices each), one loop per triangle
\* corner.  obj.malformed stands for scene data on which the bmesh/numpy
\* calls of lines 26-48 raise.
extract_data(obj) ==
    IF obj.malformed THEN Raise
    ELSE IF obj.type = "MESH"
    THEN Ok(Some([vertices |-> [i \in 1..obj.mesh.nverts |-> i],
                  normals |-> [i \in 1..(3 * Len(obj.mesh.tris)) |-> i],
                  indices |-> Flatten(obj.mesh.tris),
                  uvs |-> IF obj.mesh.hasUV
                          THEN Some([i \in 1..(3 * Len(obj.mesh.tris)) |-> i])
                          ELSE None,
                  materials |-> MaterialDescriptors(obj.materials),
                  name |-> obj.name]))
    ELSE Ok(None)

\* Truthy, but a record without vertices or without triangles is false
Truthy_empty_mesh_false(mesh_data) ==
    /\ mesh_data # None
    /\ mesh_data[1].vertices # <<>>
    /\ mesh_data[1].indices # <<>>

\* Python truth value of extract_data's result (line 177): None is false,
\* a dict is true unless it has no keys
Truthy(mesh_data) == mesh_data # None /\ DOMAIN mesh_data[1] # {}

(***************************************************************************)
(* The operator's properties (lines 119-157) and its environment.          *)
(***************************************************************************)
draco_level_min == 1

draco_level_max == 9

jpeg_quality_min == 1

jpeg_quality_max == 100

\* IntProperty, but the limits are not applied
IntProperty_unclamped(value, min, max) == value

\* an IntProperty with min and max stores every assigned value clamped
IntProperty(value, min, max) ==
    IF value < min THEN min ELSE IF value > max THEN max ELSE value

RequestedOptions ==
    {[use_draco |-> TRUE, draco_level |-> 5, use_jpeg |-> TRUE,
      jpeg_quality |-> 75, use_zip |-> FALSE],
     [use_draco |-> TRUE, draco_level |-> 1, use_jpeg |-> FALSE,
      jpeg_quality |-> 100, use_zip |-> TRUE],
     [use_draco |-> FALSE, draco_level |-> 9, use_jpeg |-> TRUE,
      jpeg_quality |-> 1, use_zip |-> FALSE],
     [use_draco |-> TRUE, draco_level |-> 0, use_jpeg |-> TRUE,
      jpeg_quality |-> 101, use_zip |-> FALSE],
     [use_draco |-> TRUE, draco_level |-> 10, use_jpeg |-> TRUE,
      jpeg_quality |-> 0, use_zip |-> TRUE]}

Root == <<"/">>

OutDir == <<"/", "out">>

\* requested file path and file system before the export
Environments ==
    {[filepath |-> OutDir \o <<"scene.gltf">>, dirs |-> {Root, OutDir},
      readonly |-> FALSE],
     [filepath |-> OutDir \o <<"scene.gltf">>, dirs |-> {Root, OutDir},
      readonly |-> TRUE],
     [filepath |-> OutDir \o <<"scene.gltf">>, dirs |-> {Root},
      readonly |-> FALSE],
     [filepath |-> OutDir \o <<"scene.gltf">>, dirs |-> {Root},
      readonly |-> TRUE],
     [filepath |-> <<"scene.gltf">>, dirs |-> {Root, OutDir},
      readonly |-> FALSE]}

\* makedirs, but without exist_ok: an existing directory is an error
makedirs_exist_not_ok(path, f) ==
    IF path = <<>> \/ path \in f.dirs \/ f.readonly THEN Raise
    ELSE Ok([f EXCEPT !.dirs = @ \cup {SubSeq(path, 1, k) : k \in 1..Len(path)}])

\* os.makedirs(path, exist_ok=True) on file system f: "" names no directory,
\* an existing directory is accepted, a missing one is created with its
\* missing ancestors unless the file system refuses
makedirs(path, f) ==
    IF path = <<>> THEN Raise
    ELSE IF path \in f.dirs THEN Ok(f)
    ELSE IF f.readonly THEN Raise
    ELSE Ok([f EXCEPT !.dirs = @ \cup {SubSeq(path, 1, k) : k \in 1..Len(path)}])

\* load_glTFCompL_module (lines 18-23): the import of line 22 gives the
\* module or raises ImportError
load_glTFCompL_module(importable) ==
    IF importable THEN Ok("glTFCompL") ELSE Raise

(***************************************************************************)
(* Scene objects.                                                          *)
(***************************************************************************)
Mesh(nverts, tris, hasUV) == [nverts |-> nverts, tris |-> tris, hasUV |-> hasUV]

Object(type, malformed, mesh, materials) ==
    [type |-> type, malformed |-> malformed, mesh |-> mesh,
     materials |-> materials]

ObjectKinds ==
    {\* a light
     Object("LIGHT", FALSE, Mesh(0, <<>>, FALSE), <<>>),
     \* a triangle with a UV layer and a file texture
     Object("MESH", FALSE, Mesh(3, <<<<0, 1, 2>>>>, TRUE),
            <<Material("m", TRUE, <<Node("TEX_IMAGE", Some(ImgFile))>>)>>),
     \* a mesh without vertices
     Object("MESH", FALSE, Mesh(0, <<>>, FALSE), <<>>),
     \* loose vertices, no face
     Object("MESH", FALSE, Mesh(3, <<>>, FALSE), <<None>>),
     \* a mesh whose data makes extract_data raise
     Object("MESH", TRUE, Mesh(3, <<<<0, 1, 7>>>>, FALSE), <<>>),
     \* a triangle whose packed texture makes get_texture_data raise
     Object("MESH", FALSE, Mesh(3, <<<<0, 1, 2>>>>, FALSE),
            <<Material("m", TRUE, <<Node("TEX_IMAGE", Some(ImgTruncated))>>)>>)}

\* scene objects are named by their position in the scene
SceneObject(i, kind, selected) ==
    [name |-> i, type |-> kind.type, malformed |-> kind.malformed,
     mesh |-> kind.mesh, materials |-> kind.materials, selected |-> selected]

selected_objects(sc) == SelectSeq(sc, LAMBDA o : o.selected)

(***************************************************************************)
(* EXPORT_SCENE_OT_compgltf.execute (lines 159-195).                       *)
(***************************************************************************)
Init ==
    /\ \E n \in 0..MaxObjs :
         \E kinds \in [1..n -> ObjectKinds], sel \in [1..n -> BOOLEAN] :
            scene = [i \in 1..n |-> SceneObject(i, kinds[i], sel[i])]
    /\ requested \in RequestedOptions
    /\ \E env \in Environments, export_selected \in BOOLEAN :
         /\ fs = [dirs |-> env.dirs, readonly |-> env.readonly]
         /\ self = [filepath |-> env.filepath,
                    export_selected |-> export_selected,
                    use_draco |-> requested.use_draco,
                    draco_level |-> IntProperty(requested.draco_level,
                                       draco_level_min, draco_level_max),
                    use_jpeg |-> requested.use_jpeg,
                    jpeg_quality |-> IntProperty(requested.jpeg_quality,
                                        jpeg_quality_min, jpeg_quality_max),
                    use_zip |-> requested.use_zip]
    /\ pc = "load" /\ m = "none" /\ objects = <<>> /\ export_folder = <<>>
    /\ idx = 0 /\ mkdirLog = <<>> /\ calls = <<>> /\ reports = <<>>
    /\ extractLog = <<>> /\ textureLog = <<>> /\ result = "NONE"
    /\ texObj = [materials |-> <<>>] /\ texOut = <<>>

\* LoadModule, but the handler of ImportError does not return
LoadModule_no_return ==
    /\ pc = "load"
    /\ \E importable \in BOOLEAN :
         LET r == load_glTFCompL_module(importable) IN
         IF r.tag = "ok"
         THEN /\ m' = r.val
              /\ UNCHANGED reports
         ELSE /\ reports' = Append(reports,
                     [level |-> "ERROR", text |-> "Could not import glTFCompL"])
              /\ UNCHANGED m
    /\ pc' = "setup"
    /\ UNCHANGED <<scene, self, requested, fs, objects, export_folder, idx,
                   mkdirLog, calls, extractLog, textureLog, result, texVars>>

\* lines 160-165
LoadModule ==
    /\ pc = "load"
    /\ \E importable \in BOOLEAN :
         LET r == load_glTFCompL_module(importable) IN
         IF r.tag = "ok"
         THEN /\ m' = r.val
              /\ pc' = "setup"
              /\ UNCHANGED <<reports, result>>
         ELSE /\ reports' = Append(reports,
                     [level |-> "ERROR", text |-> "Could not import glTFCompL"])
              /\ result' = "CANCELLED"
              /\ pc' = "done"
              /\ UNCHANGED m
    /\ UNCHANGED <<scene, self, requested, fs, objects, export_folder, idx,
                   mkdirLog, calls, extractLog, textureLog, texVars>>

\* lines 167-169
Setup ==
    /\ pc = "setup"
    /\ objects' = IF self.export_selected THEN selected_objects(scene)
                  ELSE scene
    /\ export_folder' = dirname(self.filepath)
    /\ LET r == makedirs(export_folder', fs) IN
       /\ mkdirLog' = Append(mkdirLog,
              [path |-> export_folder', existed |-> export_folder' \in fs.dirs,
               ok |-> r.tag = "ok"])
       /\ IF r.tag = "ok"
          THEN /\ fs' = r.val
               /\ idx' = 1
               /\ pc' = "loop"
               /\ UNCHANGED result
          ELSE /\ result' = "RAISED"
               /\ pc' = "done"
               /\ UNCHANGED <<fs, idx>>
    /\ UNCHANGED <<scene, self, requested, m, calls, reports, extractLog,
                   textureLog, texVars>>

\* IsExported, but without the test of the type
IsExported_any_type(obj) == TRUE

\* line 173: the objects the loop body goes on with
IsExported(obj) == obj.type = "MESH"

\* lines 182-192
BackendCall(mesh_data, textures) ==
    [mesh_data |-> mesh_data,
     export_folder |-> export_folder,
     filepath |-> self.filepath,
     textures |-> textures,
     use_draco |-> self.use_draco,
     draco_level |-> self.draco_level,
     use_jpeg |-> self.use_jpeg,
     jpeg_quality |-> self.jpeg_quality,
     use_zip |-> self.use_zip]

\* an exception leaves execute: nothing catches it
Propagate == result' = "RAISED" /\ pc' = "done" /\ UNCHANGED idx

Continue == idx' = idx + 1 /\ UNCHANGED <<pc, result>>

\* lines 171-192: one iteration of the for loop
LoopBody ==
    /\ pc = "loop"
    /\ idx <= Len(objects)
    /\ LET obj == objects[idx] IN
       IF ~IsExported(obj)
       THEN Continue /\ UNCHANGED <<extractLog, textureLog, calls>>
       ELSE LET mesh_data == extract_data(obj) IN
            /\ extractLog' = Append(extractLog,
                   [name |-> obj.name, outcome |-> mesh_data.tag])
            /\ IF mesh_data.tag = "raise"
               THEN Propagate /\ UNCHANGED <<textureLog, calls>>
               ELSE IF ~Truthy(mesh_data.val)
               THEN Continue /\ UNCHANGED <<textureLog, calls>>
               ELSE \E cast \in CastModes :
                    LET textures == get_texture_data(obj, cast) IN
                    /\ textureLog' = Append(textureLog,
                           [name |-> obj.name, outcome |-> textures.tag])
                    /\ IF textures.tag = "raise"
                       THEN Propagate /\ UNCHANGED calls
                       ELSE /\ calls' = Append(calls,
                                   BackendCall(mesh_data.val[1], textures.val))
                            \* m.ReadBlenderData returns or raises
                            /\ \E returns \in BOOLEAN :
                                  IF returns THEN Continue ELSE Propagate
    /\ UNCHANGED <<scene, self, requested, fs, m, objects, export_folder,
                   mkdirLog, reports, texVars>>

\* lines 194-195
Finish ==
    /\ pc = "loop"
    /\ idx > Len(objects)
    /\ reports' = Append(reports,
           [level |-> "INFO", text |-> "Export complete", path |-> self.filepath])
    /\ result' = "FINISHED"
    /\ pc' = "done"
    /\ UNCHANGED <<scene, self, requested, fs, m, objects, export_folder, idx,
                   mkdirLog, calls, extractLog, textureLog, texVars>>

Next == LoadModule \/ Setup \/ LoopBody \/ Finish

Spec == Init /\ [][Next]_vars

(***************************************************************************)
(* Properties of execute, checked under Spec.                              *)
(***************************************************************************)
IsPrefix(a, b) == Len(a) <= Len(b) /\ a = SubSeq(b, 1, Len(a))

Names(log) == [i \in 1..Len(log) |-> log[i].name]

MeshNames(objs) == Names(SelectSeq(objs, LAMBDA o : o.type = "MESH"))

CallNames == [i \in 1..Len(calls) |-> calls[i].mesh_data.name]

Raised(log) == \E i \in 1..Len(log) : log[i].outcome = "raise"

C2_ImportFailureCancels ==
    /\ (pc \in {"setup", "loop", "done"} /\ m = "none") =>
          /\ pc = "done"
          /\ result = "CANCELLED"
          /\ Len(reports) = 1
          /\ reports[1].level = "ERROR"
          /\ extractLog = <<>>
          /\ textureLog = <<>>
          /\ mkdirLog = <<>>
          /\ calls = <<>>
    /\ result = "CANCELLED" => m = "none"

C2_Witness ==
    /\ result = "CANCELLED"
    /\ \E i \in 1..Len(scene) : scene[i].type = "MESH"
    /\ dirname(self.filepath) \notin fs.dirs
    /\ ~fs.readonly

\* C3 as stated: no record without vertices or without triangles reaches
\* the backend, and an export of only such meshes returns FINISHED with a
\* success report.
C3_EmptyMeshSkipped ==
    /\ \A i \in 1..Len(calls) :
          /\ calls[i].mesh_data.vertices # <<>>
          /\ calls[i].mesh_data.indices # <<>>
    /\ ( /\ pc = "done"
         /\ m # "none"
         /\ mkdirLog # <<>> /\ mkdirLog[1].ok
         /\ \A i \in 1..Len(objects) :
               /\ objects[i].type = "MESH"
               /\ ~objects[i].malformed
               /\ objects[i].mesh.nverts = 0 \/ objects[i].mesh.tris = <<>> )
       => /\ result = "FINISHED"
          /\ Len(reports) = 1
          /\ reports[1].level = "INFO"

\* C4 as stated: when extract_data or get_texture_data raises for an object,
\* a warning is reported, every MESH object of the list is still extracted
\* and the export completes.
C4_FailedObjectDropped ==
    (pc = "done" /\ (Raised(extractLog) \/ Raised(textureLog))) =>
        /\ result = "FINISHED"
        /\ \E i \in 1..Len(reports) : reports[i].level = "WARNING"
        /\ Names(extractLog) = MeshNames(objects)

\* C5: the backend is called, and objects are extracted, only after
\* os.makedirs succeeded on the parent directory of the file path; when it
\* fails the export ends there, without an extraction or a backend call;
\* and it never fails on a directory that existed already.
C5_DirectoryBeforeBackend ==
    /\ (calls # <<>> \/ extractLog # <<>> \/ textureLog # <<>>) =>
          /\ Len(mkdirLog) = 1
          /\ mkdirLog[1].ok
          /\ mkdirLog[1].path = dirname(self.filepath)
          /\ dirname(self.filepath) \in fs.dirs
    /\ \A i \in 1..Len(mkdirLog) :
          /\ ~mkdirLog[i].ok =>
                /\ pc = "done"
                /\ result = "RAISED"
                /\ calls = <<>>
                /\ extractLog = <<>>
                /\ textureLog = <<>>
          /\ mkdirLog[i].existed => mkdirLog[i].ok

C5_Witness ==
    /\ calls # <<>>
    /\ mkdirLog[1].existed
    /\ fs.readonly

\* C6 as stated: an export that has ended has made exactly one report, the
\* success message naming the file path when it completed and an error
\* message otherwise, and the success message is only made at the end.
C6_ExactlyOneFinalReport ==
    /\ pc = "done" =>
          /\ Len(reports) = 1
          /\ reports[1].level = IF result = "FINISHED" THEN "INFO" ELSE "ERROR"
          /\ result = "FINISHED" => reports[1].path = self.filepath
    /\ (\E i \in 1..Len(reports) : reports[i].level = "INFO") => pc = "done"

\* extract_data, get_texture_data and the backend are only ever called for
\* MESH objects, and a completed export has extracted every MESH object of
\* the list, whatever stands before it
C8_StatePart ==
    /\ \A i \in 1..Len(extractLog) : scene[extractLog[i].name].type = "MESH"
    /\ \A i \in 1..Len(textureLog) : scene[textureLog[i].name].type = "MESH"
    /\ \A i \in 1..Len(calls) : scene[calls[i].mesh_data.name].type = "MESH"
    /\ result = "FINISHED" => Names(extractLog) = MeshNames(objects)

\* the iteration on an object of another type moves to the next object and
\* does nothing else
C8_SkipStep ==
    (pc = "loop" /\ idx <= Len(objects) /\ objects[idx].type # "MESH") =>
        /\ pc' = "loop"
        /\ idx' = idx + 1
        /\ UNCHANGED <<result, extractLog, textureLog, calls, reports>>

\* C8: C8_StatePart holds throughout and every step is a C8_SkipStep: only
\* MESH objects are processed, another object is passed over without an
\* error, and the objects after it are still processed.
C8_OnlyMeshObjectsProcessed == []C8_StatePart /\ [][C8_SkipStep]_vars

C8_Witness ==
    /\ result = "FINISHED"
    /\ Len(objects) = 2
    /\ objects[1].type = "LIGHT"
    /\ calls # <<>>
    /\ calls[1].mesh_data.name = objects[2].name

\* C9 as stated: an export requested with a draco_level outside 1..9 or a
\* jpeg_quality outside 1..100 makes no backend call.
C9_OutOfRangeRejected ==
    (requested.draco_level \notin 1..9 \/ requested.jpeg_quality \notin 1..100)
        => calls = <<>>

\* C9 as amended: the backend only ever receives a draco_level in 1..9 and a
\* jpeg_quality in 1..100: a requested value within the range is passed as
\* it is and one outside is passed as the nearest limit, the export going on.
C9_BackendOptionsClamped ==
    \A i \in 1..Len(calls) :
        LET c == calls[i] IN
        /\ c.draco_level \in 1..9
        /\ c.jpeg_quality \in 1..100
        /\ requested.draco_level \in 1..9 => c.draco_level = requested.draco_level
        /\ requested.draco_level < 1 => c.draco_level = 1
        /\ requested.draco_level > 9 => c.draco_level = 9
        /\ requested.jpeg_quality \in 1..100 =>
              c.jpeg_quality = requested.jpeg_quality
        /\ requested.jpeg_quality < 1 => c.jpeg_quality = 1
        /\ requested.jpeg_quality > 100 => c.jpeg_quality = 100

C9_Witness ==
    /\ calls # <<>>
    /\ requested.draco_level > 9
    /\ requested.jpeg_quality < 1

(***************************************************************************)
(* Properties of get_texture_data, checked under SpecTex.                  *)
(***************************************************************************)
TexMats == texObj.materials

\* an image input with a file path or packed data
Resolvable(node) ==
    /\ node.type = "TEX_IMAGE"
    /\ node.image # None
    /\ node.image[1].filepath # <<>> \/ node.image[1].packed

\* the references <<slot, node>> to resolvable images in node-based materials
TexRefs ==
    UNION {{<<i, j>> : j \in {k \in 1..Len(TexMats[i][1].nodes) :
                                  Resolvable(TexMats[i][1].nodes[k])}} :
           i \in {k \in 1..Len(TexMats) :
                     TexMats[k] # None /\ TexMats[k][1].use_nodes}}

RefImage(p) == TexMats[p[1]][1].nodes[p[2]].image[1]

\* position of reference p in slot order, then node order
RefRank(p) ==
    Cardinality({q \in TexRefs : q[1] < p[1] \/ (q[1] = p[1] /\ q[2] <= p[2])})

Returned == texOut # <<>> /\ texOut[1].tag = "ok"

\* C7: the list get_texture_data returns has one record for each reference
\* to an image with a file path or packed data, in material-slot order and
\* then node order, a file record when the image has a path and a packed
\* one otherwise; an image referenced twice has two records.
C7_OneRecordPerReferenceInOrder ==
    Returned =>
        LET out == texOut[1].val IN
        /\ Len(out) = Cardinality(TexRefs)
        /\ \A p \in TexRefs :
              /\ out[RefRank(p)].name = RefImage(p).name
              /\ (out[RefRank(p)].type = "file") = (RefImage(p).filepath # <<>>)
              /\ (out[RefRank(p)].type = "packed") = (RefImage(p).filepath = <<>>)

C7_Witness ==
    /\ Returned
    /\ Len(TexMats) = 2
    /\ Len(texOut[1].val) = 2
    /\ texOut[1].val[1] = texOut[1].val[2]
    /\ texOut[1].val[1].type = "packed"

\* round(clamp(v, 0, 1) * 255) for the channel value v = <<num, den>>
RoundClamp255(v) ==
    LET n == IF v[1] < 0 THEN 0 ELSE IF v[1] > v[2] THEN v[2] ELSE v[1] IN
    (2 * 255 * n + v[2]) \div (2 * v[2])

\* C10 as stated: every byte of a decoded embedded image is
\* round(clamp(v, 0, 1) * 255) for its channel value v and lies in 0..255,
\* and the buffer has width * height * channels bytes.
C10_BytesRoundedAndClamped ==
    Returned =>
        \A p \in TexRefs :
            LET rec == texOut[1].val[RefRank(p)]
                img == RefImage(p) IN
            rec.type = "packed" =>
                /\ Len(rec.data) = img.width * img.height * img.channels
                /\ \A i \in 1..Len(rec.data) :
                      /\ rec.data[i] \in 0..255
                      /\ rec.data[i] = RoundClamp255(img.pixels[i])

====
